---- MODULE Spec2Model ----
(***************************************************************************)
(* A model of pytac's value-dispatch layer: Lattice (lattice.py),          *)
(* EpicsLattice / EpicsElement / EpicsDevice / PvEnabler (epics.py) and    *)
(* DeviceModel (model.py).                                                 *)
(*                                                                         *)
(* Python values are modelled as follows.  None is the string "None".      *)
(* Family labels, fields, handles, channel (PV) names and cell numbers are *)
(* strings: the code only tests them for equality or set membership.       *)
(* A call's result is a record [exc, ret]: exc is None when the call       *)
(* returned ret, and names the exception when it raised.                   *)
(***************************************************************************)
EXTENDS Integers, Sequences, FiniteSets, TLC

VARIABLES
    lattice,    \* Lattice._lattice: the sequence of element objects
    manager,    \* Lattice._data_source_manager: its two default fields
    call,       \* the call (or channel change) made last, with its arguments
    outcome,    \* what that call returned or raised
    log,        \* the calls that call issued to its collaborators, in order
    device,     \* <<d>>: the EpicsDevice d last constructed; <<>>: none yet
    cs,         \* the control system: current value of every channel
    enabled_arg \* history: the enabled_value the device's PvEnabler was given

vars == <<lattice, manager, call, outcome, log, device, cs, enabled_arg>>

---------------------------------------------------------------------------
(* Bounds *)

\* the longest lattice add_element builds
MaxElems == 3

---------------------------------------------------------------------------
(* pytac's constants *)

None == "None"
RB == "readback"
SP == "setpoint"
ENG == "eng"
PHYS == "phys"
LIVE == "live"
SIM == "sim"

\* the exceptions the layer raises; the two ValueErrors of get_elements are
\* told apart by their message
ValueErrorFamily == "ValueError: No elements in family"
ValueErrorCell == "ValueError: No elements in cell"
IndexError == "IndexError"
UnitsException == "UnitsException"
DataSourceException == "DataSourceException"
FieldException == "FieldException"
HandleException == "HandleException"

Return(v) == [exc |-> None, ret |-> v]
Raise(e) == [exc |-> e, ret |-> None]

---------------------------------------------------------------------------
(* Python values held by channels and passed as enabled_value.  A str is   *)
(* its sequence of characters, an int its value, a float its value in      *)
(* tenths (every float of the model has at most one decimal).              *)

PyStrValue(chars) == [type |-> "str", chars |-> chars, num |-> 0]
PyIntValue(n) == [type |-> "int", chars |-> <<>>, num |-> n]
PyFloatValue(tenths) == [type |-> "float", chars |-> <<>>, num |-> tenths]

DigitOf(c) ==
    CASE c = "0" -> 0 [] c = "1" -> 1 [] c = "2" -> 2 [] c = "3" -> 3
      [] c = "4" -> 4 [] c = "5" -> 5 [] c = "6" -> 6 [] c = "7" -> 7
      [] c = "8" -> 8 [] c = "9" -> 9

CharOf(d) == <<"0", "1", "2", "3", "4", "5", "6", "7", "8", "9">>[d + 1]

\* the number a sequence of decimal digits writes
RECURSIVE DigitsValue(_)
DigitsValue(chars) ==
    IF chars = <<>> THEN 0
    ELSE 10 * DigitsValue(SubSeq(chars, 1, Len(chars) - 1)) + DigitOf(chars[Len(chars)])

\* float(str): an optional sign, digits, and optionally a point and one
\* digit; the result in tenths
ParseFloat(chars) ==
    LET neg == chars[1] = "-"
        body == IF neg THEN Tail(chars) ELSE chars
        dots == {i \in 1..Len(body) : body[i] = "."}
        whole == IF dots = {} THEN body
                 ELSE SubSeq(body, 1, (CHOOSE i \in dots : TRUE) - 1)
        frac == IF dots = {} THEN <<>>
                ELSE SubSeq(body, (CHOOSE i \in dots : TRUE) + 1, Len(body))
        tenths == 10 * DigitsValue(whole) + DigitsValue(frac)
    IN  IF neg THEN 0 - tenths ELSE tenths

\* float(v), in tenths
PyFloat(v) ==
    CASE v.type = "str" -> ParseFloat(v.chars)
      [] v.type = "int" -> 10 * v.num
      [] v.type = "float" -> v.num

\* int(f) of a float in tenths: truncation towards zero
PyInt(tenths) ==
    IF tenths >= 0 THEN tenths \div 10 ELSE 0 - ((0 - tenths) \div 10)

\* str(n) of an int: its decimal digits, after a minus sign when negative
RECURSIVE NatStr(_)
NatStr(n) ==
    IF n < 10 THEN <<CharOf(n)>> ELSE NatStr(n \div 10) \o <<CharOf(n % 10)>>

PyStr(n) == IF n < 0 THEN <<"-">> \o NatStr(0 - n) ELSE NatStr(n)

\* bool(s) of a str or None: what `if self.rb_pv` tests
Truthy(s) == s # None /\ s # ""

---------------------------------------------------------------------------
(* PvEnabler and EpicsDevice.  The operations return [exc, ret, log], log   *)
(* being the control-system calls they made.                               *)

\* PvEnabler.__init__(pv, enabled_value, cs)
PvEnabler(pv, enabled_value) ==
    [gate |-> "PvEnabler", pv |-> pv,
     enabled_value |-> PyStr(PyInt(PyFloat(enabled_value)))]

\* enabled=True, the constructor's default
AlwaysEnabled == [gate |-> "True", pv |-> None, enabled_value |-> <<>>]

\* the reading every channel starts with: the length of its name
InitialReading(pv) == PyFloatValue(10 * Len(pv))

\* a PvEnabler answering from a reading kept since start-up
PvEnabler_nonzero_cached(enabler, store) ==
    LET pv_value == InitialReading(enabler.pv)
    IN  enabler.enabled_value = PyStr(PyInt(PyFloat(pv_value)))

\* PvEnabler.__nonzero__ / __bool__: reads the channel at each call
PvEnabler_nonzero(enabler, store) ==
    LET pv_value == store[enabler.pv]
    IN  enabler.enabled_value = PyStr(PyInt(PyFloat(pv_value)))

\* a constructor demanding both channels
EpicsDevice_init_both(enabled, rb_pv, sp_pv) ==
    IF rb_pv = None \/ sp_pv = None THEN Raise(DataSourceException)
    ELSE Return([rb_pv |-> rb_pv, sp_pv |-> sp_pv, enabled |-> enabled])

\* EpicsDevice.__init__(name, cs, enabled, rb_pv, sp_pv)
EpicsDevice_init(enabled, rb_pv, sp_pv) ==
    IF rb_pv = None /\ sp_pv = None THEN Raise(DataSourceException)
    ELSE Return([rb_pv |-> rb_pv, sp_pv |-> sp_pv, enabled |-> enabled])

\* EpicsDevice.is_enabled: bool(self._enabled)
EpicsDevice_is_enabled(dev, store) ==
    IF dev.enabled.gate = "PvEnabler"
    THEN [exc |-> None, ret |-> PvEnabler_nonzero(dev.enabled, store),
          log |-> <<[op |-> "get", names |-> dev.enabled.pv]>>]
    ELSE [exc |-> None, ret |-> TRUE, log |-> <<>>]

\* EpicsDevice.set_value(value)
EpicsDevice_set_value(dev, value) ==
    IF dev.sp_pv = None
    THEN [exc |-> HandleException, ret |-> None, log |-> <<>>]
    ELSE [exc |-> None, ret |-> None,
          log |-> <<[op |-> "put", names |-> dev.sp_pv, values |-> value]>>]

\* EpicsDevice.get_value(handle)
EpicsDevice_get_value(dev, handle, store) ==
    IF handle = RB /\ Truthy(dev.rb_pv)
    THEN [exc |-> None, ret |-> store[dev.rb_pv],
          log |-> <<[op |-> "get", names |-> dev.rb_pv]>>]
    ELSE IF handle = SP /\ Truthy(dev.sp_pv)
    THEN [exc |-> None, ret |-> store[dev.sp_pv],
          log |-> <<[op |-> "get", names |-> dev.sp_pv]>>]
    ELSE [exc |-> HandleException, ret |-> None, log |-> <<>>]

\* EpicsDevice.get_pv_name(handle)
EpicsDevice_get_pv_name(dev, handle) ==
    IF handle = RB /\ Truthy(dev.rb_pv) THEN Return(dev.rb_pv)
    ELSE IF handle = SP /\ Truthy(dev.sp_pv) THEN Return(dev.sp_pv)
    ELSE Raise(HandleException)

---------------------------------------------------------------------------
(* The elements add_element is called with *)

NoDevices == <<>>

\* a beam-position monitor with both channels on field x
Bpm1 ==
    [name |-> "BPM1", families |-> {"BPM"}, cell |-> "1", length |-> 1, s |-> 0,
     default_units |-> ENG, default_data_source |-> LIVE, live |-> TRUE,
     devices |-> ("x" :> [rb_pv |-> "BPM1:X", sp_pv |-> "BPM1:X:SP",
                            enabled |-> AlwaysEnabled])]

\* a second monitor, in another cell and with other defaults
Bpm2 ==
    [name |-> "BPM2", families |-> {"BPM"}, cell |-> "2", length |-> 2, s |-> 10,
     default_units |-> PHYS, default_data_source |-> LIVE, live |-> TRUE,
     devices |-> ("x" :> [rb_pv |-> "BPM2:X", sp_pv |-> "BPM2:X:SP",
                            enabled |-> AlwaysEnabled])]

\* an element of two families whose device has a readback channel only
Corr ==
    [name |-> "CORR", families |-> {"BPM", "QUAD"}, cell |-> "2", length |-> 3, s |-> 20,
     default_units |-> ENG, default_data_source |-> SIM, live |-> TRUE,
     devices |-> ("x" :> [rb_pv |-> "CORR:X", sp_pv |-> None,
                            enabled |-> AlwaysEnabled])]

\* a quadrupole with a live data source that lacks field x
Quad ==
    [name |-> "QUAD1", families |-> {"QUAD"}, cell |-> "1", length |-> 4, s |-> 30,
     default_units |-> PHYS, default_data_source |-> SIM, live |-> TRUE,
     devices |-> ("b1" :> [rb_pv |-> "QUAD1:B1", sp_pv |-> "QUAD1:B1:SP",
                             enabled |-> AlwaysEnabled])]

\* a drift: no family, no live data source
Drift ==
    [name |-> "DRIFT", families |-> {}, cell |-> "1", length |-> 5, s |-> 40,
     default_units |-> ENG, default_data_source |-> LIVE, live |-> FALSE,
     devices |-> NoDevices]

ElementPool == {Bpm1, Bpm2, Corr, Quad, Drift}

\* the arguments the calls are made with
FamilyArgs == {"BPM", "QUAD", "SEXT"}
CellArgs == {"1", "2", "3"}
FieldArgs == {"x"}
HandleArgs == {RB, SP}

---------------------------------------------------------------------------
(* Lattice *)

\* get_elements with one combined empty-result check after both filters
get_elements_one_check(lat, family, cell) ==
    LET start == IF family = None THEN lat ELSE <<>>
        elements == start \o SelectSeq(lat, LAMBDA e : family \in e.families)
        in_cell == IF cell # None
                   THEN SelectSeq(elements, LAMBDA e : e.cell = cell)
                   ELSE elements
    IN  IF Len(in_cell) = 0
        THEN (IF cell # None THEN Raise(ValueErrorCell) ELSE Raise(ValueErrorFamily))
        ELSE Return(in_cell)

\* get_elements handing its result back in the opposite order
get_elements_reversed(lat, family, cell) ==
    LET start == IF family = None THEN lat ELSE <<>>
        elements == start \o SelectSeq(lat, LAMBDA e : family \in e.families)
        in_cell == IF cell # None
                   THEN SelectSeq(elements, LAMBDA e : e.cell = cell)
                   ELSE elements
    IN  IF Len(elements) = 0 THEN Raise(ValueErrorFamily)
        ELSE IF Len(in_cell) = 0 THEN Raise(ValueErrorCell)
        ELSE Return([i \in 1..Len(in_cell) |-> in_cell[Len(in_cell) + 1 - i]])

\* Lattice.get_elements: elements starts as the lattice itself when family
\* is None and empty otherwise; every element having the family is appended
\* (none has None as a family); then the two empty-result checks, with the
\* cell filter between them.
get_elements(lat, family, cell) ==
    LET start == IF family = None THEN lat ELSE <<>>
        elements == start \o SelectSeq(lat, LAMBDA e : family \in e.families)
        in_cell == IF cell # None
                   THEN SelectSeq(elements, LAMBDA e : e.cell = cell)
                   ELSE elements
    IN  IF Len(elements) = 0 THEN Raise(ValueErrorFamily)
        ELSE IF Len(in_cell) = 0 THEN Raise(ValueErrorCell)
        ELSE Return(in_cell)

\* Lattice.add_element
AddElement(e) ==
    /\ Len(lattice) < MaxElems
    /\ lattice' = Append(lattice, e)
    /\ call' = [op |-> "add_element", element |-> e.name]
    /\ outcome' = Return(None)
    /\ log' = <<>>
    /\ UNCHANGED <<manager, device, cs, enabled_arg>>

\* Lattice.get_elements(family, cell)
GetElements(family, cell) ==
    /\ call' = [op |-> "get_elements", family |-> family, cell |-> cell]
    /\ outcome' = get_elements(lattice, family, cell)
    /\ log' = <<>>
    /\ UNCHANGED <<lattice, manager, device, cs, enabled_arg>>

\* Lattice.get_length: the loop adding e.length of every element
RECURSIVE get_length(_)
get_length(lat) ==
    IF lat = <<>> THEN 0
    ELSE get_length(SubSeq(lat, 1, Len(lat) - 1)) + lat[Len(lat)].length

\* Lattice.get_length()
GetLength ==
    /\ call' = [op |-> "get_length"]
    /\ outcome' = Return(get_length(lattice))
    /\ log' = <<>>
    /\ UNCHANGED <<lattice, manager, device, cs, enabled_arg>>

\* Lattice.get_family_s(family)
get_family_s(lat, family) ==
    LET elements == get_elements(lat, family, None)
    IN  IF elements.exc # None THEN elements
        ELSE Return([i \in DOMAIN elements.ret |-> elements.ret[i].s])

\* Lattice.get_family_s(family)
GetFamilyS(family) ==
    /\ call' = [op |-> "get_family_s", family |-> family]
    /\ outcome' = get_family_s(lattice, family)
    /\ log' = <<>>
    /\ UNCHANGED <<lattice, manager, device, cs, enabled_arg>>

\* Element.get_value(field, handle) with the element's defaults: the value
\* is read from the element's default data source, through the device of
\* the field, from the channel the handle selects.  The result pairs the
\* channel's reading with the units it is expressed in.  No element here has
\* a simulation data source.
ElementGetValue(e, field, handle, store) ==
    IF e.default_data_source # LIVE \/ ~e.live THEN Raise(DataSourceException)
    ELSE IF field \notin DOMAIN e.devices THEN Raise(FieldException)
    ELSE LET r == EpicsDevice_get_value(e.devices[field], handle, store)
         IN  IF r.exc # None THEN Raise(r.exc)
             ELSE Return([value |-> r.ret, units |-> e.default_units])

\* Element.set_value(field, value, handle=SP) with the element's defaults:
\* the exception it raises, or None when the write went through.
ElementSetValue(e, field, value) ==
    IF e.default_data_source # LIVE \/ ~e.live THEN DataSourceException
    ELSE IF field \notin DOMAIN e.devices THEN FieldException
    ELSE EpicsDevice_set_value(e.devices[field], value).exc

\* the comprehension collecting each value in front of the earlier ones
RECURSIVE ReadAll_reversed(_, _, _, _, _)
ReadAll_reversed(elements, field, handle, store, acc) ==
    IF elements = <<>> THEN Return(acc)
    ELSE LET r == ElementGetValue(Head(elements), field, handle, store)
         IN  IF r.exc # None THEN Raise(r.exc)
             ELSE ReadAll_reversed(Tail(elements), field, handle, store,
                                   <<r.ret>> \o acc)

\* the list comprehension of get_element_values: element.get_value on each
\* element in turn; the first exception ends it
RECURSIVE ReadAll(_, _, _, _, _)
ReadAll(elements, field, handle, store, acc) ==
    IF elements = <<>> THEN Return(acc)
    ELSE LET r == ElementGetValue(Head(elements), field, handle, store)
         IN  IF r.exc # None THEN Raise(r.exc)
             ELSE ReadAll(Tail(elements), field, handle, store, Append(acc, r.ret))

\* Lattice.get_element_values(family, field, handle); the optional dtype
\* coercion rebuilds the same values as an array and is left out
get_element_values(lat, family, field, handle, store) ==
    LET elements == get_elements(lat, family, None)
    IN  IF elements.exc # None THEN elements
        ELSE ReadAll(elements.ret, field, handle, store, <<>>)

\* the zip loop going on to the next element after a failed write
RECURSIVE WriteAll_keeps_going(_, _, _, _)
WriteAll_keeps_going(elements, values, field, acc) ==
    IF elements = <<>> \/ values = <<>> THEN acc
    ELSE LET exc == ElementSetValue(Head(elements), field, Head(values))
             made == Append(acc, [op |-> "set_value",
                                  element |-> Head(elements).name,
                                  field |-> field, value |-> Head(values),
                                  handle |-> SP, exc |-> exc])
         IN  WriteAll_keeps_going(Tail(elements), Tail(values), field, made)

\* the zip loop of set_element_values: the element.set_value calls made, in
\* order, each with the exception it raised (None: written); the first
\* exception ends the loop
RECURSIVE WriteAll(_, _, _, _)
WriteAll(elements, values, field, acc) ==
    IF elements = <<>> \/ values = <<>> THEN acc
    ELSE LET exc == ElementSetValue(Head(elements), field, Head(values))
             made == Append(acc, [op |-> "set_value",
                                  element |-> Head(elements).name,
                                  field |-> field, value |-> Head(values),
                                  handle |-> SP, exc |-> exc])
         IN  IF exc # None THEN made
             ELSE WriteAll(Tail(elements), Tail(values), field, made)

\* set_element_values without the length check: zip stops at the shorter
set_element_values_unchecked(lat, family, field, values) ==
    LET elements == get_elements(lat, family, None)
    IN  IF elements.exc # None THEN [exc |-> elements.exc, ret |-> None, log |-> <<>>]
        ELSE LET made == WriteAll(elements.ret, values, field, <<>>)
                 last == IF made = <<>> THEN None ELSE made[Len(made)].exc
             IN  [exc |-> last, ret |-> None, log |-> made]

\* Lattice.set_element_values(family, field, values): [exc, ret, log]
set_element_values(lat, family, field, values) ==
    LET elements == get_elements(lat, family, None)
    IN  IF elements.exc # None THEN [exc |-> elements.exc, ret |-> None, log |-> <<>>]
        ELSE IF Len(elements.ret) # Len(values)
        THEN [exc |-> IndexError, ret |-> None, log |-> <<>>]
        ELSE LET made == WriteAll(elements.ret, values, field, <<>>)
                 last == IF made = <<>> THEN None ELSE made[Len(made)].exc
             IN  [exc |-> last, ret |-> None, log |-> made]

\* the values a bulk set is called with: n distinct numbers
Values(n) == [i \in 1..n |-> 40 + i]

\* Lattice.get_element_values(family, field, handle)
GetElementValues(family, field, handle) ==
    /\ call' = [op |-> "get_element_values", family |-> family,
                field |-> field, handle |-> handle]
    /\ outcome' = get_element_values(lattice, family, field, handle, cs)
    /\ log' = <<>>
    /\ UNCHANGED <<lattice, manager, device, cs, enabled_arg>>

\* Lattice.set_element_values(family, field, values)
SetElementValues(family, field, values) ==
    LET r == set_element_values(lattice, family, field, values)
    IN  /\ call' = [op |-> "set_element_values", family |-> family,
                    field |-> field, values |-> values]
        /\ outcome' = [exc |-> r.exc, ret |-> r.ret]
        /\ log' = r.log
        /\ UNCHANGED <<lattice, manager, device, cs, enabled_arg>>

\* Element.get_device(field): the device of the field in the element's
\* device data source; DataSourceException when the element has no device
\* data source or no device for the field
ElementGetDevice(e, field) ==
    IF ~e.live THEN Raise(DataSourceException)
    ELSE IF field \notin DOMAIN e.devices THEN Raise(DataSourceException)
    ELSE Return(e.devices[field])

\* the loop without the try: the first exception ends it
RECURSIVE DevicesOfAll_no_try(_, _, _, _)
DevicesOfAll_no_try(elements, field, devices, printed) ==
    IF elements = <<>> THEN [exc |-> None, ret |-> devices, log |-> printed]
    ELSE LET r == ElementGetDevice(Head(elements), field)
         IN  IF r.exc = None
             THEN DevicesOfAll_no_try(Tail(elements), field,
                                      Append(devices, r.ret), printed)
             ELSE [exc |-> r.exc, ret |-> None, log |-> printed]

\* the loop of get_element_devices: [exc, ret, log]; a DataSourceException
\* of element.get_device is caught and a message printed; any other
\* exception ends the loop
RECURSIVE DevicesOfAll(_, _, _, _)
DevicesOfAll(elements, field, devices, printed) ==
    IF elements = <<>> THEN [exc |-> None, ret |-> devices, log |-> printed]
    ELSE LET r == ElementGetDevice(Head(elements), field)
         IN  IF r.exc = None
             THEN DevicesOfAll(Tail(elements), field, Append(devices, r.ret), printed)
             ELSE IF r.exc = DataSourceException
             THEN DevicesOfAll(Tail(elements), field, devices,
                               Append(printed, [op |-> "print",
                                                field |-> field,
                                                element |-> Head(elements).name]))
             ELSE [exc |-> r.exc, ret |-> None, log |-> printed]

\* Lattice.get_element_devices(family, field): [exc, ret, log]
get_element_devices(lat, family, field) ==
    LET elements == get_elements(lat, family, None)
    IN  IF elements.exc # None
        THEN [exc |-> elements.exc, ret |-> None, log |-> <<>>]
        ELSE DevicesOfAll(elements.ret, field, <<>>, <<>>)

\* Lattice.get_element_devices(family, field)
GetElementDevices(family, field) ==
    LET r == get_element_devices(lattice, family, field)
    IN  /\ call' = [op |-> "get_element_devices", family |-> family,
                    field |-> field]
        /\ outcome' = [exc |-> r.exc, ret |-> r.ret]
        /\ log' = r.log
        /\ UNCHANGED <<lattice, manager, device, cs, enabled_arg>>

\* the loop of set_default_units: every element's manager gets the default
SetUnitsOfAll(elems, default_units) ==
    [i \in DOMAIN elems |-> [elems[i] EXCEPT !.default_units = default_units]]

\* the loop starting at the second element
SetDataSourceOfAll_skip_first(elems, default_data_source) ==
    [i \in DOMAIN elems |->
        IF i = 1 THEN elems[i]
        ELSE [elems[i] EXCEPT !.default_data_source = default_data_source]]

\* the loop of set_default_data_source
SetDataSourceOfAll(elems, default_data_source) ==
    [i \in DOMAIN elems |-> [elems[i] EXCEPT !.default_data_source = default_data_source]]

\* set_default_units updating the elements but not the lattice's manager
set_default_units_elements_only(lat, mgr, default_units) ==
    IF default_units = ENG \/ default_units = PHYS
    THEN LET elems == get_elements(lat, None, None)
         IN  IF elems.exc # None
             THEN [exc |-> elems.exc, manager |-> mgr, lattice |-> lat]
             ELSE [exc |-> None, manager |-> mgr,
                   lattice |-> SetUnitsOfAll(elems.ret, default_units)]
    ELSE IF default_units # None
    THEN [exc |-> UnitsException, manager |-> mgr, lattice |-> lat]
    ELSE [exc |-> None, manager |-> mgr, lattice |-> lat]

\* set_default_units assigning the lattice's manager before validating
set_default_units_assign_first(lat, mgr, default_units) ==
    LET mgr1 == [mgr EXCEPT !.default_units = default_units]
    IN  IF default_units = ENG \/ default_units = PHYS
        THEN LET elems == get_elements(lat, None, None)
             IN  IF elems.exc # None
                 THEN [exc |-> elems.exc, manager |-> mgr1, lattice |-> lat]
                 ELSE [exc |-> None, manager |-> mgr1,
                       lattice |-> SetUnitsOfAll(elems.ret, default_units)]
        ELSE IF default_units # None
        THEN [exc |-> UnitsException, manager |-> mgr1, lattice |-> lat]
        ELSE [exc |-> None, manager |-> mgr, lattice |-> lat]

\* Lattice.set_default_units(default_units): [exc, manager, lattice].  The
\* lattice's manager is assigned before get_elements() is called, so an
\* exception of get_elements leaves that assignment in place.
set_default_units(lat, mgr, default_units) ==
    IF default_units = ENG \/ default_units = PHYS
    THEN LET mgr1 == [mgr EXCEPT !.default_units = default_units]
             elems == get_elements(lat, None, None)
         IN  IF elems.exc # None
             THEN [exc |-> elems.exc, manager |-> mgr1, lattice |-> lat]
             ELSE [exc |-> None, manager |-> mgr1,
                   lattice |-> SetUnitsOfAll(elems.ret, default_units)]
    ELSE IF default_units # None
    THEN [exc |-> UnitsException, manager |-> mgr, lattice |-> lat]
    ELSE [exc |-> None, manager |-> mgr, lattice |-> lat]

\* Lattice.set_default_data_source(default_data_source): [exc, manager, lattice]
set_default_data_source(lat, mgr, default_data_source) ==
    IF default_data_source = LIVE \/ default_data_source = SIM
    THEN LET mgr1 == [mgr EXCEPT !.default_data_source = default_data_source]
             elems == get_elements(lat, None, None)
         IN  IF elems.exc # None
             THEN [exc |-> elems.exc, manager |-> mgr1, lattice |-> lat]
             ELSE [exc |-> None, manager |-> mgr1,
                   lattice |-> SetDataSourceOfAll(elems.ret, default_data_source)]
    ELSE IF default_data_source # None
    THEN [exc |-> DataSourceException, manager |-> mgr, lattice |-> lat]
    ELSE [exc |-> None, manager |-> mgr, lattice |-> lat]

\* the values set_default_units and set_default_data_source are called with
UnitsArgs == {ENG, PHYS, None, "volts"}
DataSourceArgs == {LIVE, SIM, None, "archive"}

\* Lattice.set_default_units(default_units)
SetDefaultUnits(default_units) ==
    LET r == set_default_units(lattice, manager, default_units)
    IN  /\ call' = [op |-> "set_default_units", value |-> default_units]
        /\ outcome' = [exc |-> r.exc, ret |-> None]
        /\ manager' = r.manager
        /\ lattice' = r.lattice
        /\ log' = <<>>
        /\ UNCHANGED <<device, cs, enabled_arg>>

\* Lattice.set_default_data_source(default_data_source)
SetDefaultDataSource(default_data_source) ==
    LET r == set_default_data_source(lattice, manager, default_data_source)
    IN  /\ call' = [op |-> "set_default_data_source", value |-> default_data_source]
        /\ outcome' = [exc |-> r.exc, ret |-> None]
        /\ manager' = r.manager
        /\ lattice' = r.lattice
        /\ log' = <<>>
        /\ UNCHANGED <<device, cs, enabled_arg>>

\* Lattice.get_default_units()
GetDefaultUnits ==
    /\ call' = [op |-> "get_default_units"]
    /\ outcome' = Return(manager.default_units)
    /\ log' = <<>>
    /\ UNCHANGED <<lattice, manager, device, cs, enabled_arg>>

\* Lattice.get_default_data_source()
GetDefaultDataSource ==
    /\ call' = [op |-> "get_default_data_source"]
    /\ outcome' = Return(manager.default_data_source)
    /\ log' = <<>>
    /\ UNCHANGED <<lattice, manager, device, cs, enabled_arg>>

\* what the lattice-level DataSourceManager's get_value does: a number, or
\* one of the exceptions of the data-source layer
ManagerGetResults ==
    {Return(41), Return(42), Raise(DataSourceException), Raise(FieldException),
     Raise(HandleException), Raise(UnitsException)}

\* what the lattice-level DataSourceManager's set_value does: it returns
\* nothing, or raises
ManagerSetResults ==
    {Return(None), Raise(DataSourceException), Raise(FieldException),
     Raise(HandleException), Raise(UnitsException)}

\* the two except clauses with each other's exception
Lattice_get_value_swapped(mgr_result) ==
    IF mgr_result.exc = DataSourceException THEN Raise(FieldException)
    ELSE IF mgr_result.exc = FieldException THEN Raise(DataSourceException)
    ELSE mgr_result

\* Lattice.get_value: the manager's result is returned; its
\* DataSourceException and its FieldException are each caught and raised
\* anew with a message naming the lattice; anything else passes through
Lattice_get_value(mgr_result) ==
    IF mgr_result.exc = DataSourceException THEN Raise(DataSourceException)
    ELSE IF mgr_result.exc = FieldException THEN Raise(FieldException)
    ELSE mgr_result

\* Lattice.set_value: as get_value, but the method has no return statement
Lattice_set_value(mgr_result) ==
    IF mgr_result.exc = DataSourceException THEN Raise(DataSourceException)
    ELSE IF mgr_result.exc = FieldException THEN Raise(FieldException)
    ELSE IF mgr_result.exc # None THEN mgr_result
    ELSE Return(None)

\* Lattice.get_value(field, handle) while the manager does mgr_result
LatticeGetValue(field, handle, mgr_result) ==
    /\ call' = [op |-> "lattice.get_value", field |-> field, handle |-> handle]
    /\ outcome' = Lattice_get_value(mgr_result)
    /\ log' = <<[op |-> "manager.get_value", field |-> field,
                 handle |-> handle, exc |-> mgr_result.exc,
                 ret |-> mgr_result.ret]>>
    /\ UNCHANGED <<lattice, manager, device, cs, enabled_arg>>

\* Lattice.set_value(field, value) while the manager does mgr_result
LatticeSetValue(field, value, mgr_result) ==
    /\ call' = [op |-> "lattice.set_value", field |-> field, value |-> value]
    /\ outcome' = Lattice_set_value(mgr_result)
    /\ log' = <<[op |-> "manager.set_value", field |-> field,
                 value |-> value, handle |-> SP, exc |-> mgr_result.exc,
                 ret |-> mgr_result.ret]>>
    /\ UNCHANGED <<lattice, manager, device, cs, enabled_arg>>

---------------------------------------------------------------------------
(* DeviceModel, EpicsElement, EpicsLattice *)

KeyError == "KeyError"

\* DeviceModel.get_device(field): self._devices[field]
DeviceModel_get_device(devices, field) ==
    IF field \in DOMAIN devices THEN Return(devices[field]) ELSE Raise(KeyError)

\* EpicsElement.get_pv_name(field, handle): the KeyError of a missing live
\* data source, and of the data source's device lookup, becomes a
\* DataSourceException; a FieldException is raised again as one; any other
\* exception passes through.
EpicsElement_get_pv_name(e, field, handle) ==
    LET dev == IF ~e.live THEN Raise(KeyError)
               ELSE DeviceModel_get_device(e.devices, field)
        r == IF dev.exc # None THEN dev
             ELSE EpicsDevice_get_pv_name(dev.ret, handle)
    IN  IF r.exc = KeyError THEN Raise(DataSourceException)
        ELSE IF r.exc = FieldException THEN Raise(FieldException)
        ELSE r

\* the loop of get_pv_names: the first exception ends it
RECURSIVE NamesOfAll(_, _, _, _)
NamesOfAll(elements, field, handle, pv_names) ==
    IF elements = <<>> THEN Return(pv_names)
    ELSE LET r == EpicsElement_get_pv_name(Head(elements), field, handle)
         IN  IF r.exc # None THEN r
             ELSE NamesOfAll(Tail(elements), field, handle, Append(pv_names, r.ret))

\* EpicsLattice.get_pv_names(family, field, handle)
get_pv_names(lat, family, field, handle) ==
    LET elements == get_elements(lat, family, None)
    IN  IF elements.exc # None THEN elements
        ELSE NamesOfAll(elements.ret, field, handle, <<>>)

\* get_values reading the channels one by one
get_values_per_element(lat, family, field, handle, store) ==
    LET pv_names == get_pv_names(lat, family, field, handle)
    IN  IF pv_names.exc # None
        THEN [exc |-> pv_names.exc, ret |-> None, log |-> <<>>]
        ELSE [exc |-> None,
              ret |-> [i \in DOMAIN pv_names.ret |-> store[pv_names.ret[i]]],
              log |-> [i \in DOMAIN pv_names.ret |->
                          [op |-> "get", names |-> <<pv_names.ret[i]>>]]]

\* EpicsLattice.get_values(family, field, handle): [exc, ret, log]; the
\* optional dtype coercion of the values read is left out
get_values(lat, family, field, handle, store) ==
    LET pv_names == get_pv_names(lat, family, field, handle)
    IN  IF pv_names.exc # None
        THEN [exc |-> pv_names.exc, ret |-> None, log |-> <<>>]
        ELSE [exc |-> None,
              ret |-> [i \in DOMAIN pv_names.ret |-> store[pv_names.ret[i]]],
              log |-> <<[op |-> "get", names |-> pv_names.ret]>>]

\* EpicsLattice.set_values(family, field, values): [exc, ret, log]
set_values(lat, family, field, values) ==
    LET pv_names == get_pv_names(lat, family, field, "setpoint")
    IN  IF pv_names.exc # None
        THEN [exc |-> pv_names.exc, ret |-> None, log |-> <<>>]
        ELSE IF Len(pv_names.ret) # Len(values)
        THEN [exc |-> IndexError, ret |-> None, log |-> <<>>]
        ELSE [exc |-> None, ret |-> None,
              log |-> <<[op |-> "put", names |-> pv_names.ret, values |-> values]>>]

\* EpicsLattice.get_pv_names(family, field, handle)
GetPvNames(family, field, handle) ==
    /\ call' = [op |-> "get_pv_names", family |-> family,
                field |-> field, handle |-> handle]
    /\ outcome' = get_pv_names(lattice, family, field, handle)
    /\ log' = <<>>
    /\ UNCHANGED <<lattice, manager, device, cs, enabled_arg>>

\* EpicsLattice.get_values(family, field, handle)
GetValues(family, field, handle) ==
    LET r == get_values(lattice, family, field, handle, cs)
    IN  /\ call' = [op |-> "get_values", family |-> family,
                    field |-> field, handle |-> handle]
        /\ outcome' = [exc |-> r.exc, ret |-> r.ret]
        /\ log' = r.log
        /\ UNCHANGED <<lattice, manager, device, cs, enabled_arg>>

\* EpicsLattice.set_values(family, field, values)
SetValues(family, field, values) ==
    LET r == set_values(lattice, family, field, values)
    IN  /\ call' = [op |-> "set_values", family |-> family,
                    field |-> field, values |-> values]
        /\ outcome' = [exc |-> r.exc, ret |-> r.ret]
        /\ log' = r.log
        /\ UNCHANGED <<lattice, manager, device, cs, enabled_arg>>

\* element.get_pv_name(field, handle) of the i-th element of the lattice
ElementGetPvName(i, field, handle) ==
    /\ i \in DOMAIN lattice
    /\ call' = [op |-> "element.get_pv_name", index |-> i,
                field |-> field, handle |-> handle]
    /\ outcome' = EpicsElement_get_pv_name(lattice[i], field, handle)
    /\ log' = <<>>
    /\ UNCHANGED <<lattice, manager, device, cs, enabled_arg>>

---------------------------------------------------------------------------
(* One EpicsDevice and the channel its PvEnabler is bound to *)

\* the channel names a device is constructed with: an EPICS PV name, or None
RbArgs == {None, "DEV:RB"}
SpArgs == {None, "DEV:SP"}

\* the values the enabling channel takes and enabled_value is given as:
\* "1", "1.0", "2", "0.9", "-0.5", "-1", 1, 0, 1.5, -1.2
EnableValues ==
    {PyStrValue(<<"1">>), PyStrValue(<<"1", ".", "0">>), PyStrValue(<<"2">>),
     PyStrValue(<<"0", ".", "9">>), PyStrValue(<<"-", "0", ".", "5">>),
     PyStrValue(<<"-", "1">>), PyIntValue(1), PyIntValue(0),
     PyFloatValue(15), PyFloatValue(0 - 12)}

\* EpicsDevice(name, cs, enabled, rb_pv, sp_pv) with enabled=True
NewEpicsDevice(rb_pv, sp_pv) ==
    LET r == EpicsDevice_init(AlwaysEnabled, rb_pv, sp_pv)
    IN  /\ call' = [op |-> "EpicsDevice", rb_pv |-> rb_pv, sp_pv |-> sp_pv,
                    gated |-> FALSE]
        /\ outcome' = [exc |-> r.exc, ret |-> None]
        /\ device' = IF r.exc = None THEN <<r.ret>> ELSE <<>>
        /\ log' = <<>>
        /\ UNCHANGED <<lattice, manager, cs, enabled_arg>>

\* EpicsDevice(name, cs, PvEnabler("DEV:EN", enabled_value, cs), rb_pv, sp_pv)
NewGatedEpicsDevice(enabled_value, rb_pv, sp_pv) ==
    LET r == EpicsDevice_init(PvEnabler("DEV:EN", enabled_value), rb_pv, sp_pv)
    IN  /\ call' = [op |-> "EpicsDevice", rb_pv |-> rb_pv, sp_pv |-> sp_pv,
                    gated |-> TRUE]
        /\ outcome' = [exc |-> r.exc, ret |-> None]
        /\ device' = IF r.exc = None THEN <<r.ret>> ELSE <<>>
        /\ enabled_arg' = enabled_value
        /\ log' = <<>>
        /\ UNCHANGED <<lattice, manager, cs>>

\* device.set_value(value)
DeviceSetValue(value) ==
    /\ device # <<>>
    /\ LET r == EpicsDevice_set_value(device[1], value)
       IN  /\ call' = [op |-> "set_value", value |-> value]
           /\ outcome' = [exc |-> r.exc, ret |-> r.ret]
           /\ log' = r.log
    /\ UNCHANGED <<lattice, manager, device, cs, enabled_arg>>

\* device.get_value(handle)
DeviceGetValue(handle) ==
    /\ device # <<>>
    /\ LET r == EpicsDevice_get_value(device[1], handle, cs)
       IN  /\ call' = [op |-> "get_value", handle |-> handle]
           /\ outcome' = [exc |-> r.exc, ret |-> r.ret]
           /\ log' = r.log
    /\ UNCHANGED <<lattice, manager, device, cs, enabled_arg>>

\* device.get_pv_name(handle)
DeviceGetPvName(handle) ==
    /\ device # <<>>
    /\ call' = [op |-> "get_pv_name", handle |-> handle]
    /\ outcome' = EpicsDevice_get_pv_name(device[1], handle)
    /\ log' = <<>>
    /\ UNCHANGED <<lattice, manager, device, cs, enabled_arg>>

\* device.is_enabled()
DeviceIsEnabled ==
    /\ device # <<>>
    /\ LET r == EpicsDevice_is_enabled(device[1], cs)
       IN  /\ call' = [op |-> "is_enabled"]
           /\ outcome' = [exc |-> r.exc, ret |-> r.ret]
           /\ log' = r.log
    /\ UNCHANGED <<lattice, manager, device, cs, enabled_arg>>

\* bool(enabler) of the device's PvEnabler
EnablerBool ==
    /\ device # <<>>
    /\ device[1].enabled.gate = "PvEnabler"
    /\ call' = [op |-> "bool"]
    /\ outcome' = Return(PvEnabler_nonzero(device[1].enabled, cs))
    /\ log' = <<[op |-> "get", names |-> device[1].enabled.pv]>>
    /\ UNCHANGED <<lattice, manager, device, cs, enabled_arg>>

\* the machine changes the value of the enabling channel; call records the
\* event, no call of the layer being involved
ChannelChange(v) ==
    /\ cs' = [cs EXCEPT !["DEV:EN"] = v]
    /\ call' = [op |-> "channel_change", value |-> v]
    /\ outcome' = Return(None)
    /\ log' = <<>>
    /\ UNCHANGED <<lattice, manager, device, enabled_arg>>

---------------------------------------------------------------------------
(* The control system *)

\* every channel name of the model
Channels ==
    {"BPM1:X", "BPM1:X:SP", "BPM2:X", "BPM2:X:SP", "CORR:X",
     "QUAD1:B1", "QUAD1:B1:SP", "DEV:RB", "DEV:SP", "DEV:EN"}

Init ==
    /\ lattice = <<>>
    /\ manager = [default_units |-> ENG, default_data_source |-> LIVE]
    /\ call = [op |-> "init"]
    /\ outcome = Return(None)
    /\ log = <<>>
    /\ device = <<>>
    /\ cs = [pv \in Channels |-> InitialReading(pv)]
    /\ enabled_arg = PyIntValue(1)

\* Lattice: building, filtering and the element-by-element bulk operations
Next ==
    \/ \E e \in ElementPool : AddElement(e)
    \/ \E f \in FamilyArgs \cup {None}, c \in CellArgs \cup {None} : GetElements(f, c)
    \/ \E f \in FamilyArgs, fd \in FieldArgs, h \in HandleArgs :
           GetElementValues(f, fd, h)
    \/ \E f \in FamilyArgs, fd \in FieldArgs, n \in 0..(MaxElems + 1) :
           SetElementValues(f, fd, Values(n))
    \/ \E f \in FamilyArgs, fd \in FieldArgs : GetElementDevices(f, fd)
    \/ \E fd \in FieldArgs, h \in HandleArgs, r \in ManagerGetResults :
           LatticeGetValue(fd, h, r)
    \/ \E fd \in FieldArgs, v \in {41}, r \in ManagerSetResults :
           LatticeSetValue(fd, v, r)

Spec == Init /\ [][Next]_vars

\* Lattice: the defaults and their propagation
NextDefaults ==
    \/ \E e \in ElementPool : AddElement(e)
    \/ \E u \in UnitsArgs : SetDefaultUnits(u)
    \/ \E d \in DataSourceArgs : SetDefaultDataSource(d)
    \/ GetDefaultUnits
    \/ GetDefaultDataSource

SpecDefaults == Init /\ [][NextDefaults]_vars

\* Lattice: every operation of the class that reads or walks the element
\* sequence, with one or two arguments each
NextOrder ==
    \/ \E e \in ElementPool : AddElement(e)
    \/ \E f \in {None, "BPM"}, c \in {None, "2"} : GetElements(f, c)
    \/ \E f \in {"BPM", "SEXT"} : GetFamilyS(f)
    \/ \E f \in {"QUAD"}, fd \in FieldArgs : GetElementDevices(f, fd)
    \/ \E f \in {"BPM"}, fd \in FieldArgs, h \in {RB} : GetElementValues(f, fd, h)
    \/ \E f \in {"BPM"}, fd \in FieldArgs, n \in {2} : SetElementValues(f, fd, Values(n))
    \/ \E u \in {PHYS, "volts"} : SetDefaultUnits(u)
    \/ \E d \in {SIM} : SetDefaultDataSource(d)
    \/ GetLength

SpecOrder == Init /\ [][NextOrder]_vars

\* EpicsLattice: the batched bulk operations
NextEpics ==
    \/ \E e \in ElementPool : AddElement(e)
    \/ \E f \in FamilyArgs, fd \in FieldArgs, h \in HandleArgs : GetPvNames(f, fd, h)
    \/ \E f \in FamilyArgs, fd \in FieldArgs, h \in HandleArgs : GetValues(f, fd, h)
    \/ \E f \in FamilyArgs, fd \in FieldArgs, n \in 0..(MaxElems + 1) :
           SetValues(f, fd, Values(n))
    \/ \E i \in 1..MaxElems, fd \in FieldArgs, h \in HandleArgs :
           ElementGetPvName(i, fd, h)

SpecEpics == Init /\ [][NextEpics]_vars

\* EpicsDevice and PvEnabler
NextDevice ==
    \/ \E rb \in RbArgs, sp \in SpArgs : NewEpicsDevice(rb, sp)
    \/ \E v \in EnableValues, rb \in RbArgs, sp \in SpArgs :
           NewGatedEpicsDevice(v, rb, sp)
    \/ \E v \in {41, 42} : DeviceSetValue(v)
    \/ \E h \in HandleArgs : DeviceGetValue(h)
    \/ \E h \in HandleArgs : DeviceGetPvName(h)
    \/ DeviceIsEnabled
    \/ EnablerBool
    \/ \E v \in EnableValues : ChannelChange(v)

SpecDevice == Init /\ [][NextDevice]_vars

---------------------------------------------------------------------------
(* What the claims speak of, stated without the operators of the model *)

\* the positions of the lattice whose element has the family
MemberIndices(family) == {i \in DOMAIN lattice : family \in lattice[i].families}

FamilySize(family) == Cardinality(MemberIndices(family))

\* the position of the j-th member of the family, counting along the lattice
NthMember(family, j) ==
    CHOOSE i \in MemberIndices(family) :
        Cardinality({m \in MemberIndices(family) : m <= i}) = j

\* the members of the family, in lattice order
MembersInOrder(family) ==
    [j \in 1..FamilySize(family) |-> lattice[NthMember(family, j)]]

---------------------------------------------------------------------------
(* Claims about Lattice filtering and element-by-element bulk operations,  *)
(* checked under Spec                                                      *)

\* C1 (as claimed): get_elements() with no family and no cell returns all
\* the elements of the lattice, in the order they were added, whatever
\* sequence of add_element calls built the lattice.
C1_AllElementsReturned ==
    (call.op = "get_elements" /\ call.family = None /\ call.cell = None)
        => (outcome.exc = None /\ outcome.ret = lattice)

\* C2: for a family with k >= 1 members, get_elements(family) returns
\* exactly the k members in lattice order, and get_element_values(family,
\* field, handle), when every member can be read, returns k values, the
\* i-th being the value of the i-th member; when it raises it returns none.
C2_FamilyElementsAndValues ==
    /\ (call.op = "get_elements" /\ call.family # None /\ call.cell = None
            /\ FamilySize(call.family) >= 1)
        => (outcome.exc = None /\ outcome.ret = MembersInOrder(call.family))
    /\ (call.op = "get_element_values" /\ FamilySize(call.family) >= 1)
        => LET members == MembersInOrder(call.family)
               read(j) == ElementGetValue(members[j], call.field, call.handle, cs)
           IN  IF \A j \in DOMAIN members : read(j).exc = None
               THEN /\ outcome.exc = None
                    /\ Len(outcome.ret) = FamilySize(call.family)
                    /\ \A j \in DOMAIN members : outcome.ret[j] = read(j).ret
               ELSE outcome.exc # None

\* C2's case: two values returned for a family of two in a lattice of three
\* that starts with an element outside the family
C2_Witness ==
    /\ call.op = "get_element_values"
    /\ outcome.exc = None
    /\ Len(outcome.ret) = 2
    /\ Len(lattice) = 3
    /\ call.family \notin lattice[1].families
    /\ outcome.ret[1] # outcome.ret[2]

\* C3 (as claimed): set_element_values with a number of values other than
\* the number of elements of the family fails with IndexError, having
\* called no element's set_value.
C3_MismatchIsIndexError ==
    (call.op = "set_element_values" /\ Len(call.values) # FamilySize(call.family))
        => (outcome.exc = IndexError /\ log = <<>>)

\* C3 (amended): such a call fails having called no element's set_value;
\* it fails with IndexError when the family has at least one element, and
\* with the empty-family ValueError of get_elements when it has none.
C3_MismatchFailsBeforeWriting ==
    (call.op = "set_element_values" /\ Len(call.values) # FamilySize(call.family))
        => /\ log = <<>>
           /\ outcome.exc = IF FamilySize(call.family) >= 1 THEN IndexError
                            ELSE ValueErrorFamily

\* C3's case: three values for a family of two writable elements
C3_Witness ==
    /\ call.op = "set_element_values"
    /\ Len(call.values) = 3
    /\ FamilySize(call.family) = 2
    /\ \A i \in MemberIndices(call.family) :
           ElementSetValue(lattice[i], call.field, 0) = None
    /\ outcome.exc = IndexError

\* the elements the family filter of get_elements keeps: all of them when
\* no family is asked for
FilteredIndices(family) ==
    IF family = None THEN DOMAIN lattice ELSE MemberIndices(family)

\* C4: get_elements makes two empty-result checks in turn: with no element
\* in the family it fails with the empty-family ValueError whatever the
\* cell; with elements in the family but none of them in the cell it fails
\* with the empty-cell ValueError; and the empty-cell ValueError is raised
\* only when the family filter kept an element.
C4_TwoSequentialChecks ==
    call.op = "get_elements" =>
        /\ FilteredIndices(call.family) = {} => outcome.exc = ValueErrorFamily
        /\ (/\ FilteredIndices(call.family) # {}
            /\ call.cell # None
            /\ \A i \in FilteredIndices(call.family) : lattice[i].cell # call.cell)
                => outcome.exc = ValueErrorCell
        /\ outcome.exc = ValueErrorCell => FilteredIndices(call.family) # {}

\* C4's case: a family with a member, none of its members in the cell asked
\* for although another element of the lattice is
C4_Witness ==
    /\ call.op = "get_elements"
    /\ call.family # None
    /\ call.cell # None
    /\ FamilySize(call.family) >= 1
    /\ \E i \in DOMAIN lattice : lattice[i].cell = call.cell
    /\ outcome.exc = ValueErrorCell

---------------------------------------------------------------------------
(* Claims about EpicsLattice, checked under SpecEpics *)

\* the channel of the element's device for the field that the handle selects
ChannelOf(e, field, handle) ==
    IF handle = RB THEN e.devices[field].rb_pv ELSE e.devices[field].sp_pv

\* the element has a live device for the field with a channel at the handle
HasChannel(e, field, handle) ==
    /\ e.live
    /\ field \in DOMAIN e.devices
    /\ ChannelOf(e, field, handle) # None

\* the channels of the members of the family, in family order
ChannelsInOrder(family, field, handle) ==
    [j \in 1..FamilySize(family) |->
        ChannelOf(MembersInOrder(family)[j], field, handle)]

\* every member of a non-empty family has the channel
AllResolve(family, field, handle) ==
    /\ FamilySize(family) >= 1
    /\ \A i \in MemberIndices(family) : HasChannel(lattice[i], field, handle)

\* C5: a get_values call that returns has made exactly one control-system
\* get, carrying the channel names of all family elements in family order;
\* a set_values call that returns has made exactly one put, carrying the
\* setpoint channel names and the values, as many values as names; a
\* set_values call whose names all resolve but whose values differ in
\* number fails with IndexError; and a call that fails has made no get or
\* put.
C5_OneBatchedTransportCall ==
    /\ call.op = "get_values" =>
        /\ AllResolve(call.family, call.field, call.handle) <=> outcome.exc = None
        /\ outcome.exc = None =>
              log = <<[op |-> "get",
                       names |-> ChannelsInOrder(call.family, call.field, call.handle)]>>
        /\ outcome.exc # None => log = <<>>
    /\ call.op = "set_values" =>
        /\ outcome.exc = None =>
              /\ log = <<[op |-> "put",
                          names |-> ChannelsInOrder(call.family, call.field, SP),
                          values |-> call.values]>>
              /\ Len(call.values) = FamilySize(call.family)
        /\ (AllResolve(call.family, call.field, SP)
               /\ Len(call.values) # FamilySize(call.family))
              => outcome.exc = IndexError
        /\ (AllResolve(call.family, call.field, SP)
               /\ Len(call.values) = FamilySize(call.family))
              => outcome.exc = None
        /\ outcome.exc # None => log = <<>>

\* C5's case: one put of two names and two values, in a lattice of three
C5_Witness ==
    /\ call.op = "set_values"
    /\ outcome.exc = None
    /\ Len(log) = 1
    /\ Len(log[1].names) = 2
    /\ log[1].names[1] # log[1].names[2]
    /\ Len(lattice) = 3

---------------------------------------------------------------------------
(* Claims about the defaults of the lattice, checked under SpecDefaults *)

\* C6: after set_default_units(u) with u ENG or PHYS has returned, the
\* manager of the lattice and that of every element have default_units u,
\* and a get_default_units() made next returns u; likewise for
\* set_default_data_source with LIVE or SIM.
C6_DefaultsPropagated ==
    /\ [](/\ (call.op = "set_default_units" /\ call.value \in {ENG, PHYS}
                 /\ outcome.exc = None)
             => /\ manager.default_units = call.value
                /\ \A i \in DOMAIN lattice : lattice[i].default_units = call.value
          /\ (call.op = "set_default_data_source" /\ call.value \in {LIVE, SIM}
                 /\ outcome.exc = None)
             => /\ manager.default_data_source = call.value
                /\ \A i \in DOMAIN lattice :
                       lattice[i].default_data_source = call.value)
    /\ [][/\ (call.op = "set_default_units" /\ call.value \in {ENG, PHYS}
                 /\ outcome.exc = None /\ call'.op = "get_default_units")
             => outcome'.ret = call.value
          /\ (call.op = "set_default_data_source" /\ call.value \in {LIVE, SIM}
                 /\ outcome.exc = None /\ call'.op = "get_default_data_source")
             => outcome'.ret = call.value]_vars

\* C6's case: set_default_units(PHYS) has returned on a lattice of three
\* whose first element was added with ENG as its default
C6_Witness ==
    /\ call.op = "set_default_units"
    /\ call.value = PHYS
    /\ outcome.exc = None
    /\ Len(lattice) = 3
    /\ lattice[1].name = "BPM1"
    /\ lattice[1].default_units = PHYS

\* C7: set_default_units with a value other than ENG, PHYS and None fails
\* with UnitsException, with None it raises nothing, and in both cases the
\* default_units of the lattice's manager and of every element's manager
\* are what they were before the call.
C7_InvalidUnitsChangeNothing ==
    [][(call'.op = "set_default_units" /\ call'.value \notin {ENG, PHYS})
        => /\ outcome'.exc = IF call'.value = None THEN None ELSE UnitsException
           /\ manager'.default_units = manager.default_units
           /\ DOMAIN lattice' = DOMAIN lattice
           /\ \A i \in DOMAIN lattice :
                  lattice'[i].default_units = lattice[i].default_units]_vars

\* C7's case: an invalid value refused on a lattice whose manager and
\* elements do not all have the same default
C7_Witness ==
    /\ call.op = "set_default_units"
    /\ call.value = "volts"
    /\ outcome.exc = UnitsException
    /\ \E i \in DOMAIN lattice : lattice[i].default_units # manager.default_units
    /\ \E i \in DOMAIN lattice : lattice[i].default_units = manager.default_units

\* C8: when a set_default_units or set_default_data_source call ends, by
\* returning or by raising, on any lattice, either the lattice's manager
\* and all element managers hold the new default, or all of them hold the
\* value they had before the call.
C8_PropagationAllOrNothing ==
    [][/\ call'.op = "set_default_units" =>
            \/ /\ manager'.default_units = call'.value
               /\ \A i \in DOMAIN lattice' : lattice'[i].default_units = call'.value
            \/ /\ manager'.default_units = manager.default_units
               /\ DOMAIN lattice' = DOMAIN lattice
               /\ \A i \in DOMAIN lattice :
                      lattice'[i].default_units = lattice[i].default_units
       /\ call'.op = "set_default_data_source" =>
            \/ /\ manager'.default_data_source = call'.value
               /\ \A i \in DOMAIN lattice' :
                      lattice'[i].default_data_source = call'.value
            \/ /\ manager'.default_data_source = manager.default_data_source
               /\ DOMAIN lattice' = DOMAIN lattice
               /\ \A i \in DOMAIN lattice :
                      lattice'[i].default_data_source = lattice[i].default_data_source
      ]_vars

\* C8's case: on a lattice with no element, set_default_units(PHYS) has
\* ended by raising the ValueError of get_elements, the lattice's manager
\* holding the new default
C8_Witness ==
    /\ call.op = "set_default_units"
    /\ call.value = PHYS
    /\ lattice = <<>>
    /\ outcome.exc = ValueErrorFamily
    /\ manager.default_units = PHYS

---------------------------------------------------------------------------
(* Claims about EpicsDevice and PvEnabler, checked under SpecDevice *)

\* the channel of the device that the handle selects
DeviceChannel(handle) == IF handle = RB THEN device[1].rb_pv ELSE device[1].sp_pv

\* C9: construction fails with DataSourceException exactly when both
\* channels are absent; set_value on a device without a setpoint channel
\* fails with HandleException and makes no put; get_value(RB) and
\* get_pv_name(RB) on a device without a readback channel fail with
\* HandleException and make no get; for a handle whose channel is present
\* get_value reads that channel and get_pv_name returns its name.
C9_ChannelRules ==
    /\ call.op = "EpicsDevice" =>
        /\ outcome.exc = DataSourceException
              <=> (call.rb_pv = None /\ call.sp_pv = None)
        /\ outcome.exc \in {None, DataSourceException}
        /\ outcome.exc = None <=> device # <<>>
        /\ device # <<>> =>
              (device[1].rb_pv = call.rb_pv /\ device[1].sp_pv = call.sp_pv)
    /\ (call.op = "set_value" /\ device[1].sp_pv = None)
        => (outcome.exc = HandleException /\ log = <<>>)
    /\ (call.op \in {"get_value", "get_pv_name"} /\ call.handle = RB
            /\ device[1].rb_pv = None)
        => (outcome.exc = HandleException /\ log = <<>>)
    /\ (call.op = "get_value" /\ DeviceChannel(call.handle) # None)
        => /\ outcome.exc = None
           /\ outcome.ret = cs[DeviceChannel(call.handle)]
           /\ log = <<[op |-> "get", names |-> DeviceChannel(call.handle)]>>
    /\ (call.op = "get_pv_name" /\ DeviceChannel(call.handle) # None)
        => (outcome.exc = None /\ outcome.ret = DeviceChannel(call.handle))

\* C9's case: get_value(RB) refused by a device that has a setpoint channel
\* only
C9_Witness ==
    /\ call.op = "get_value"
    /\ call.handle = RB
    /\ device[1].rb_pv = None
    /\ device[1].sp_pv # None
    /\ outcome.exc = HandleException
    /\ log = <<>>

\* the number, in tenths, that each str of EnableValues writes
TenthsWritten(chars) ==
    CASE chars = <<"1">> -> 10
      [] chars = <<"1", ".", "0">> -> 10
      [] chars = <<"2">> -> 20
      [] chars = <<"0", ".", "9">> -> 9
      [] chars = <<"-", "0", ".", "5">> -> 0 - 5
      [] chars = <<"-", "1">> -> 0 - 10

\* the integer a value truncates to: the integer n nearest to zero from the
\* value, that is with |n| <= |value| < |n| + 1 and the value's sign
TruncatedOf(v) ==
    LET t == IF v.type = "str" THEN TenthsWritten(v.chars)
             ELSE IF v.type = "int" THEN 10 * v.num ELSE v.num
    IN  CHOOSE n \in (0 - 10)..10 :
            IF t >= 0 THEN 10 * n <= t /\ t < 10 * n + 10
            ELSE t <= 10 * n /\ 10 * n - 10 < t

\* C10: at every query, bool(enabler) and is_enabled() of a device gated by
\* the enabler are true iff the current value of the channel and the
\* configured enabled value are the same after conversion to a float and
\* truncation to an integer (then compared as strings); a device with no
\* enabler is enabled.
C10_EnablerFollowsChannel ==
    (call.op \in {"is_enabled", "bool"}) =>
        /\ outcome.exc = None
        /\ outcome.ret = IF device[1].enabled.gate = "PvEnabler"
                         THEN TruncatedOf(cs["DEV:EN"]) = TruncatedOf(enabled_arg)
                         ELSE TRUE

\* C10's case: the channel now reads "1.0" (it started at 6.0) and the
\* enabler configured with "1" answers true
C10_Witness ==
    /\ call.op = "is_enabled"
    /\ device[1].enabled.gate = "PvEnabler"
    /\ enabled_arg = PyStrValue(<<"1">>)
    /\ cs["DEV:EN"] = PyStrValue(<<"1", ".", "0">>)
    /\ outcome.ret = TRUE

---------------------------------------------------------------------------
(* Further claims about Lattice, checked under Spec *)

\* the j-th smallest of a set of positions
NthOf(S, j) == CHOOSE i \in S : Cardinality({m \in S : m <= i}) = j

\* the positions of the members of the family that define the field
DefiningIndices(family, field) ==
    {i \in MemberIndices(family) :
        lattice[i].live /\ field \in DOMAIN lattice[i].devices}

---------------------------------------------------------------------------
(* A further claim about EpicsElement, checked under SpecEpics *)

\* C12 (as claimed): element.get_pv_name(field, handle) fails with
\* DataSourceException when the element has no live data source, with
\* FieldException when the live data source has no such field, and returns
\* the channel at the handle of the field's live device when there is one.
C12_PvNameOrTheRightException ==
    call.op = "element.get_pv_name" =>
        LET e == lattice[call.index]
        IN  IF ~e.live THEN outcome.exc = DataSourceException
            ELSE IF call.field \notin DOMAIN e.devices
            THEN outcome.exc = FieldException
            ELSE ChannelOf(e, call.field, call.handle) # None
                    => /\ outcome.exc = None
                       /\ outcome.ret = ChannelOf(e, call.field, call.handle)

---------------------------------------------------------------------------
(* A claim about the element sequence, checked under SpecOrder *)

\* the two sequences hold the same elements in the same order; the
\* defaults of an element's manager are not part of what it is
SameElements(a, b) ==
    /\ Len(a) = Len(b)
    /\ \A i \in DOMAIN a :
          /\ a[i].name = b[i].name
          /\ a[i].families = b[i].families
          /\ a[i].cell = b[i].cell
          /\ a[i].length = b[i].length
          /\ a[i].s = b[i].s
          /\ a[i].live = b[i].live
          /\ a[i].devices = b[i].devices

\* the sum of the lengths of the elements at the positions of S
RECURSIVE LengthOver(_)
LengthOver(S) ==
    IF S = {} THEN 0
    ELSE LET i == CHOOSE i \in S : TRUE
         IN  lattice[i].length + LengthOver(S \ {i})

\* C13: add_element appends its element after those already there, no
\* other Lattice operation appends, removes or reorders an element, so that
\* the element sequence is always the elements in the order they were
\* added; and get_length() is the sum of their lengths.
C13_OrderStable ==
    /\ [][IF call'.op = "add_element"
          THEN /\ Len(lattice') = Len(lattice) + 1
               /\ lattice'[Len(lattice')].name = call'.element
               /\ SameElements(lattice, SubSeq(lattice', 1, Len(lattice)))
          ELSE SameElements(lattice, lattice')]_vars
    /\ [](call.op = "get_length" => outcome.ret = LengthOver(DOMAIN lattice))

\* C13's case: get_length() on a lattice built as BPM2, BPM1, CORR whose
\* elements have since been given other defaults by both propagations
C13_Witness ==
    /\ call.op = "get_length"
    /\ Len(lattice) = 3
    /\ lattice[1].name = "BPM2"
    /\ lattice[2].name = "BPM1"
    /\ lattice[3].name = "CORR"
    /\ lattice[2].default_units = PHYS
    /\ lattice[1].default_data_source = SIM
    /\ outcome.ret = 6

---------------------------------------------------------------------------
(* A claim about Lattice.get_value and Lattice.set_value, checked under Spec *)

\* C14: what Lattice.get_value and Lattice.set_value raise is of the kind
\* the lattice-level manager raised (a DataSourceException stays a
\* DataSourceException, a FieldException a FieldException), they raise
\* exactly when the manager did, and when the manager returned they return
\* what it returned.
C14_SameErrorKind ==
    call.op \in {"lattice.get_value", "lattice.set_value"} =>
        /\ outcome.exc = log[1].exc
        /\ log[1].exc = None => outcome.ret = log[1].ret

\* C14's case: the manager's get_value raised FieldException and the
\* caller of Lattice.get_value got one
C14_Witness ==
    /\ call.op = "lattice.get_value"
    /\ log[1].op = "manager.get_value"
    /\ log[1].exc = FieldException
    /\ outcome.exc = FieldException

---------------------------------------------------------------------------
(* A claim about the order of the writes of set_element_values, checked    *)
(* under Spec                                                              *)

\* C15: set_element_values with as many values as the family has elements
\* calls set_value on the family's elements in lattice order, the j-th with
\* the j-th value and the setpoint handle.  Every call before the last one
\* made went through and nothing is called to undo it; the call fails
\* exactly when the last write made failed, with that write's exception,
\* and the elements after it are not written; when no write fails all the
\* elements are written.
C15_WritesInOrderUntilFailure ==
    (/\ call.op = "set_element_values"
     /\ FamilySize(call.family) >= 1
     /\ Len(call.values) = FamilySize(call.family)) =>
        LET members == MembersInOrder(call.family)
            made == Len(log)
        IN  /\ made \in 1..Len(members)
            /\ \A j \in 1..made :
                  /\ log[j].op = "set_value"
                  /\ log[j].element = members[j].name
                  /\ log[j].field = call.field
                  /\ log[j].value = call.values[j]
                  /\ log[j].handle = SP
                  /\ log[j].exc = ElementSetValue(members[j], call.field,
                                                  call.values[j])
            /\ \A j \in 1..(made - 1) : log[j].exc = None
            /\ outcome.exc = log[made].exc
            /\ log[made].exc = None => made = Len(members)

\* C15's case: three values for a family of three whose second element
\* refuses the write: the first is written, the third is not touched
C15_Witness ==
    /\ call.op = "set_element_values"
    /\ FamilySize(call.family) = 3
    /\ Len(call.values) = 3
    /\ Len(log) = 2
    /\ log[1].exc = None
    /\ log[1].value = call.values[1]
    /\ log[2].exc # None
    /\ outcome.exc = log[2].exc

====
